---- MODULE Spec2Model ----
(***************************************************************************)
(* dynetx/readwrite/edgelist.py: the interaction-list and snapshot-list    *)
(* readers (parse_interactions, parse_snapshots) and the timestamp index   *)
(* builder (read_ids).                                                     *)
(*                                                                         *)
(* A line is a sequence of one-character strings, as Python sees it; a     *)
(* token is a sub-sequence of a line.  The parsers run with                *)
(* nodetype = timestamptype = int, comments = "#" and delimiter = None.    *)
(***************************************************************************)
EXTENDS Integers, Sequences, FiniteSets, TLC

\* number of lines one parse consumes at most
MaxLines == 3
\* largest timestamp written in an input line
MaxT == 2
\* number of lines of a file read_ids scans at most
MaxFile == 3

VARIABLES
    parser,        \* "parse_interactions" or "parse_snapshots"
    create_using,  \* the create_using argument as passed
    keys,          \* the keys argument: <<>> is None, <<ids>> a timestamp index
    pc,            \* "start", "loop", "done" (returned G), "error" (raised);
                   \* "idle" while read_ids runs alone, "write" and "read"
                   \* before a serializer and a reader are called
    G,             \* the graph being filled: pair -> sequence of entries
    line,          \* the loop variable: the line read last
    lineno,        \* number of lines consumed from the iterator
    err,           \* the exception raised, if any
    F,             \* the same parse run with create_using = None
    path,          \* read_ids: the lines of the file
    ids,           \* read_ids: the candidates collected so far
    idpc,          \* read_ids: "scan", "done" or "error"; "idle" when not called
    idpos,         \* read_ids: number of lines read
    index,         \* read_ids: the returned index, <<>> until it returns
    W,             \* the serializers: the graph written, <<>> when none is
    wpos           \* generate_snapshots: number of stored ranges gone through

vars == <<parser, create_using, keys, pc, G, line, lineno, err, F,
          path, ids, idpc, idpos, index, W, wpos>>

parseVars == <<parser, create_using, keys, pc, G, line, lineno, err, F>>
idVars == <<path, ids, idpc, idpos, index>>
writeVars == <<W, wpos>>

-----------------------------------------------------------------------------
(* Python string primitives, on sequences of characters *)

Min(S) == CHOOSE x \in S : \A y \in S : x <= y
Max(S) == CHOOSE x \in S : \A y \in S : x >= y

DigitChars == <<"0", "1", "2", "3", "4", "5", "6", "7", "8", "9">>

IsDigit(c) == \E d \in 1..Len(DigitChars) : DigitChars[d] = c

DigitVal(c) == (CHOOSE d \in 1..Len(DigitChars) : DigitChars[d] = c) - 1

IsSpace(c) == c \in {" ", "\n"}

\* str.find(c): 0-based position of the first c, -1 when absent
Find(str, c) ==
    LET hits == {i \in 1..Len(str) : str[i] = c}
    IN  IF hits = {} THEN -1 ELSE Min(hits) - 1

\* str[:p]
Prefix(str, p) == SubSeq(str, 1, p)

\* str.strip()
Strip(str) ==
    LET solid == {i \in 1..Len(str) : ~IsSpace(str[i])}
    IN  IF solid = {} THEN <<>> ELSE SubSeq(str, Min(solid), Max(solid))

\* str.rstrip()
RStrip(str) ==
    LET solid == {i \in 1..Len(str) : ~IsSpace(str[i])}
    IN  IF solid = {} THEN <<>> ELSE SubSeq(str, 1, Max(solid))

\* str.split(None): the maximal runs of non-whitespace characters
RECURSIVE Split(_)
Split(str) ==
    IF str = <<>> THEN <<>>
    ELSE IF IsSpace(Head(str)) THEN Split(Tail(str))
    ELSE LET gaps == {i \in 1..Len(str) : IsSpace(str[i])}
             n == IF gaps = {} THEN Len(str) + 1 ELSE Min(gaps)
         IN  <<SubSeq(str, 1, n - 1)>> \o Split(SubSeq(str, n, Len(str)))

RECURSIVE DigitsValue(_)
DigitsValue(ds) ==
    IF ds = <<>> THEN 0
    ELSE 10 * DigitsValue(SubSeq(ds, 1, Len(ds) - 1)) + DigitVal(ds[Len(ds)])

Unsigned(tok) == IF tok # <<>> /\ tok[1] \in {"+", "-"} THEN Tail(tok) ELSE tok

\* int(tok) succeeds: an optional sign followed by at least one digit
IntOK(tok) ==
    /\ Unsigned(tok) # <<>>
    /\ \A i \in 1..Len(Unsigned(tok)) : IsDigit(Unsigned(tok)[i])

\* int(tok)
ToInt(tok) ==
    IF tok[1] = "-" THEN 0 - DigitsValue(Unsigned(tok))
    ELSE DigitsValue(Unsigned(tok))

nodetype(tok) == ToInt(tok)

timestamptype(tok) == ToInt(tok)

-----------------------------------------------------------------------------
(* The graph collaborator (dynetx.DynGraph) *)

\* an undirected pair of nodes
Pair(u, v) == {u, v}

\* DynGraph(): no node, no edge
EmptyGraph == [p \in {} |-> <<>>]

\* G.clear()
Clear(g) == EmptyGraph

\* G.add_interaction(u, v, t=t, e=e): append one entry to the pair's timeline
add_interaction(g, u, v, t, e) ==
    [p \in (DOMAIN g) \cup {Pair(u, v)} |->
        IF p = Pair(u, v)
        THEN Append(IF p \in DOMAIN g THEN g[p] ELSE <<>>, [t |-> t, e |-> e])
        ELSE g[p]]

\* G.edge[u][v] exists
HasEdge(g, u, v) == Pair(u, v) \in DOMAIN g

\* G.edge[u][v]['t']
Timestamps(g, u, v) == [i \in 1..Len(g[Pair(u, v)]) |-> g[Pair(u, v)][i].t]

\* dynetx.utils.clean_timeslot: rank of each distinct value, ascending
clean_timeslot(S) == [x \in S |-> Cardinality({y \in S : y < x})]

-----------------------------------------------------------------------------
(* Outcomes of one pass of a parser's loop body *)

None == <<>>

NoErr == [exc |-> "", what |-> "", tok |-> <<>>, type |-> ""]

\* raise TypeError("create_using input is not a DyNet graph type")
CreateUsingError ==
    [exc |-> "TypeError", what |-> "create_using", tok |-> <<>>, type |-> "DyNet graph"]

\* raise TypeError("Failed to convert nodes %s,%s to type %s." % (u, v, nodetype))
NodeError(u, v) ==
    [exc |-> "TypeError", what |-> "nodes", tok |-> <<u, v>>, type |-> "nodetype"]

\* raise TypeError("Failed to convert timestamp %s to type %s." % (s, nodetype))
TimestampError(s) ==
    [exc |-> "TypeError", what |-> "timestamp", tok |-> <<s>>, type |-> "nodetype"]

\* a failed subscript: G.edge[u][v] or keys[x]
KeyError(what) ==
    [exc |-> "KeyError", what |-> what, tok |-> <<>>, type |-> ""]

\* the loop goes on to the next line
Continue(g) == [G |-> g, pc |-> "loop", err |-> NoErr]

\* the exception leaves the parser; the graph stays as it is
Raise(g, e) == [G |-> g, pc |-> "error", err |-> e]

\* the line cut at the last marker, as rfind would
StripCommentLast(ln) ==
    LET hits == {i \in 1..Len(ln) : ln[i] = "#"}
    IN  IF hits = {} THEN ln ELSE SubSeq(ln, 1, Max(hits) - 1)

\* p = line.find(comments); if p >= 0: line = line[:p]
StripComment(ln) ==
    LET p == Find(ln, "#")
    IN  IF p >= 0 THEN Prefix(ln, p) ELSE ln

\* s = line.strip().split(delimiter)
Fields(ln) == Split(Strip(ln))

\* keys[x] is defined
HasKey(k, x) == x \in DOMAIN k[1]

\* keys[x]
Key(k, x) == k[1][x]

\* the test written as parse_snapshots writes it
InteractionSkipAtLeast(s) == Len(s) < 4

\* parse_interactions, `if len(s) != 4: continue`
InteractionSkip(s) == Len(s) # 4

\* parse_interactions, first bound of range(timestamps[-1], s)
RangeStart(timestamps) == timestamps[Len(timestamps)]

\* the comparison of the guard turned round
ShouldExpandBefore(timestamps, s) ==
    Len(timestamps) > 0 /\ timestamps[Len(timestamps)] > s

\* parse_interactions, the guard of the expansion
ShouldExpand(timestamps, s) ==
    Len(timestamps) > 0 /\ timestamps[Len(timestamps)] < s

\* parse_interactions, `for t in range(timestamps[-1], s)` from t on
RECURSIVE ExpandRange(_, _, _, _, _, _)
ExpandRange(g, k, u, v, t, stop) ==
    IF t >= stop THEN Continue(g)
    ELSE IF k # None
         THEN IF HasKey(k, t)
              THEN ExpandRange(add_interaction(g, u, v, Key(k, t), None),
                               k, u, v, t + 1, stop)
              ELSE Raise(g, KeyError("keys"))
         ELSE ExpandRange(add_interaction(g, u, v, t, None), k, u, v, t + 1, stop)

\* the start registered in a graph emptied first
OpenInteractionCleared(g, k, u, v, s) ==
    IF k # None
    THEN IF HasKey(k, s)
         THEN Continue(add_interaction(Clear(g), u, v, Key(k, s), None))
         ELSE Raise(g, KeyError("keys"))
    ELSE Continue(add_interaction(Clear(g), u, v, s, None))

\* parse_interactions, the branch `if op == '+'`
OpenInteraction(g, k, u, v, s) ==
    IF k # None
    THEN IF HasKey(k, s)
         THEN Continue(add_interaction(g, u, v, Key(k, s), None))
         ELSE Raise(g, KeyError("keys"))
    ELSE Continue(add_interaction(g, u, v, s, None))

\* the oldest start, timestamps[0], taken for the most recent one
CloseInteractionFirst(g, k, u, v, s) ==
    IF ~HasEdge(g, u, v) THEN Raise(g, KeyError("edge"))
    ELSE LET timestamps == Timestamps(g, u, v)
         IN  IF Len(timestamps) > 0 /\ timestamps[1] < s
             THEN ExpandRange(g, k, u, v, timestamps[1], s)
             ELSE Continue(g)

\* parse_interactions, the `else` branch
CloseInteraction(g, k, u, v, s) ==
    IF ~HasEdge(g, u, v) THEN Raise(g, KeyError("edge"))
    ELSE LET timestamps == Timestamps(g, u, v)
         IN  IF ShouldExpand(timestamps, s)
             THEN ExpandRange(g, k, u, v, RangeStart(timestamps), s)
             ELSE Continue(g)

\* a timestamp that does not convert is passed over
InteractionConvertLenient(g, k, u, v, op, s) ==
    IF ~(IntOK(u) /\ IntOK(v)) THEN Raise(g, NodeError(u, v))
    ELSE IF ~IntOK(s) THEN Continue(g)
    ELSE IF op = <<"+">>
         THEN OpenInteraction(g, k, nodetype(u), nodetype(v), timestamptype(s))
         ELSE CloseInteraction(g, k, nodetype(u), nodetype(v), timestamptype(s))

\* parse_interactions, the conversions of one record
InteractionConvert(g, k, u, v, op, s) ==
    IF ~(IntOK(u) /\ IntOK(v)) THEN Raise(g, NodeError(u, v))
    ELSE IF ~IntOK(s) THEN Raise(g, TimestampError(s))
    ELSE IF op = <<"+">>
         THEN OpenInteraction(g, k, nodetype(u), nodetype(v), timestamptype(s))
         ELSE CloseInteraction(g, k, nodetype(u), nodetype(v), timestamptype(s))

\* parse_interactions: the body of `for line in lines`
InteractionLine(g, k, ln) ==
    LET stripped == StripComment(ln)
    IN  IF Len(stripped) = 0 THEN Continue(g)
        ELSE LET s == Fields(stripped)
             IN  IF InteractionSkip(s) THEN Continue(g)
                 ELSE InteractionConvert(g, k, s[1], s[2], s[3], s[4])

\* parse_snapshots, `if len(s) < 3: continue`
SnapshotSkip(s) == Len(s) < 3

\* parse_snapshots, e = None for three fields, the fourth field otherwise
SnapshotE(s) == IF Len(s) = 3 THEN None ELSE <<s[4]>>

\* parse_snapshots, the registration of one record; e is <<>> or <<token>>
\* and is never converted, so no key of an integer index equals it
SnapshotRegister(g, k, u, v, t, e) ==
    IF k # None
    THEN IF e # None
         THEN Raise(g, KeyError("keys"))
         ELSE IF HasKey(k, t)
              THEN Continue(add_interaction(g, u, v, Key(k, t), e))
              ELSE Raise(g, KeyError("keys"))
    ELSE Continue(add_interaction(g, u, v, t, e))

\* parse_snapshots, the conversions of one record
SnapshotConvert(g, k, u, v, t, e) ==
    IF ~(IntOK(u) /\ IntOK(v)) THEN Raise(g, NodeError(u, v))
    ELSE IF ~IntOK(t) THEN Raise(g, TimestampError(t))
    ELSE SnapshotRegister(g, k, nodetype(u), nodetype(v), timestamptype(t), e)

\* parse_snapshots: the body of `for line in lines`
SnapshotLine(g, k, ln) ==
    LET stripped == StripComment(ln)
    IN  IF Len(stripped) = 0 THEN Continue(g)
        ELSE LET s == Fields(stripped)
             IN  IF SnapshotSkip(s) THEN Continue(g)
                 ELSE SnapshotConvert(g, k, s[1], s[2], s[3], SnapshotE(s))

-----------------------------------------------------------------------------
(* Inputs *)

\* the decimal token of a small number
Tok(n) == <<DigitChars[n + 1]>>

RECURSIVE Join(_)
Join(fs) ==
    IF Len(fs) = 0 THEN <<>>
    ELSE IF Len(fs) = 1 THEN fs[1]
    ELSE fs[1] \o <<" ">> \o Join(Tail(fs))

\* one line of a file: the fields, single spaces between them, a newline
TextLine(fs) == Join(fs) \o <<"\n">>

\* the node fields of the records: two pairs
NodeFields == { <<Tok(1), Tok(2)>>, <<Tok(1), Tok(3)>> }
OpTokens == {<<"+">>, <<"-">>}
TTokens == {Tok(n) : n \in 0..MaxT}
ETokens == {Tok(1), <<"e">>}

\* lines whose field count neither parser accepts, and lines of comment
ShortLines ==
    { <<"\n">>, <<"#", "c", "\n">>, <<" ", "#", "c", "\n">>,
      TextLine(<<Tok(1), Tok(2)>>) }

LongLines ==
    { TextLine(<<Tok(1), Tok(2), <<"+">>, Tok(0), Tok(1)>>),
      TextLine(<<Tok(1), Tok(2), Tok(1), Tok(2), Tok(0), Tok(3)>>) }

InteractionRecords ==
    { TextLine(<<n[1], n[2], op, t>>) : n \in NodeFields, op \in OpTokens,
                                        t \in TTokens }

\* records with a field int() rejects, a record without operator, records
\* with leading blanks and with comments
InteractionLines ==
    InteractionRecords \cup ShortLines \cup LongLines \cup
    { TextLine(<<<<"x">>, Tok(2), <<"+">>, Tok(0)>>),
      TextLine(<<Tok(1), Tok(2), <<"+">>, <<"x">>>>),
      TextLine(<<Tok(1), Tok(2), <<"-">>, <<"x">>>>),
      TextLine(<<Tok(1), Tok(2), Tok(0), Tok(2)>>),
      <<" ">> \o Join(<<Tok(1), Tok(2), <<"-">>, Tok(2)>>) \o <<"#", "c", "\n">>,
      <<" ">> \o Join(<<Tok(1), Tok(2), <<"-">>, Tok(2)>>) \o <<"#", "#", "\n">>,
      Join(<<Tok(1), Tok(2), <<"+">>>>) \o <<" ", "#", "0", "\n">> }

SnapshotRecords ==
    { TextLine(<<n[1], n[2], t>>) : n \in NodeFields, t \in TTokens }
    \cup
    { TextLine(<<Tok(1), Tok(2), t, e>>) : t \in TTokens, e \in ETokens }

SnapshotLines ==
    SnapshotRecords \cup ShortLines \cup LongLines \cup
    { TextLine(<<<<"x">>, Tok(2), Tok(0)>>),
      TextLine(<<Tok(1), Tok(2), <<"x">>>>),
      TextLine(<<Tok(1), <<"x">>, Tok(1), Tok(1)>>),
      TextLine(<<Tok(1)>>),
      <<" ">> \o Join(<<Tok(1), Tok(2), Tok(2)>>) \o <<"#", "c", "\n">>,
      <<" ">> \o Join(<<Tok(1), Tok(2), Tok(2)>>) \o <<"#", "#", "\n">>,
      Join(<<Tok(1), Tok(2)>>) \o <<" ", "#", "0", "\n">> }

\* graphs a caller may pass as create_using
PriorGraphs ==
    { add_interaction(add_interaction(EmptyGraph, 1, 3, 1, None), 1, 2, 0, None) }

CreateUsingChoices ==
    { [kind |-> "None", graph |-> EmptyGraph],
      [kind |-> "NotGraph", graph |-> EmptyGraph] }
    \cup { [kind |-> "DynGraph", graph |-> g] : g \in PriorGraphs }

\* the keys argument: None, or an index as read_ids returns it
KeysChoices ==
    { None, <<clean_timeslot(0..MaxT)>>, <<clean_timeslot({1, MaxT})>> }

-----------------------------------------------------------------------------
(* parse_interactions and parse_snapshots *)

IdsIdle ==
    /\ path = <<>>
    /\ ids = {}
    /\ idpc = "idle"
    /\ idpos = 0
    /\ index = <<>>

Init ==
    /\ parser \in {"parse_interactions", "parse_snapshots"}
    /\ create_using \in CreateUsingChoices
    /\ keys \in KeysChoices
    /\ pc = "start"
    /\ G = create_using.graph
    /\ line = <<>>
    /\ lineno = 0
    /\ err = NoErr
    /\ F = Continue(EmptyGraph)
    /\ IdsIdle
    /\ W = <<>>
    /\ wpos = 0

\* create_using is None: G = DynGraph()
NewGraph ==
    /\ pc = "start"
    /\ create_using.kind = "None"
    /\ G' = EmptyGraph
    /\ pc' = "loop"
    /\ UNCHANGED <<parser, create_using, keys, line, lineno, err, F>>
    /\ UNCHANGED idVars
    /\ UNCHANGED writeVars

\* G = create_using, without the call of clear()
ReuseGraphUncleared ==
    /\ pc = "start"
    /\ create_using.kind = "DynGraph"
    /\ G' = create_using.graph
    /\ pc' = "loop"
    /\ UNCHANGED <<parser, create_using, keys, line, lineno, err, F>>
    /\ UNCHANGED idVars
    /\ UNCHANGED writeVars

\* G = create_using; G.clear()
ReuseGraph ==
    /\ pc = "start"
    /\ create_using.kind = "DynGraph"
    /\ G' = Clear(create_using.graph)
    /\ pc' = "loop"
    /\ UNCHANGED <<parser, create_using, keys, line, lineno, err, F>>
    /\ UNCHANGED idVars
    /\ UNCHANGED writeVars

\* the failure of clear() swallowed, the parse going on with a new graph
RejectGraphSwallowed ==
    /\ pc = "start"
    /\ create_using.kind = "NotGraph"
    /\ pc' = "loop"
    /\ G' = EmptyGraph
    /\ UNCHANGED <<parser, create_using, keys, line, lineno, err, F>>
    /\ UNCHANGED idVars
    /\ UNCHANGED writeVars

\* G.clear() raises: the object is no graph
RejectGraph ==
    /\ pc = "start"
    /\ create_using.kind = "NotGraph"
    /\ pc' = "error"
    /\ err' = CreateUsingError
    /\ UNCHANGED <<parser, create_using, keys, G, line, lineno, F>>
    /\ UNCHANGED idVars
    /\ UNCHANGED writeVars

\* the outcome r of a loop body becomes the state of the parse
Outcome(r) ==
    /\ G' = r.G
    /\ pc' = r.pc
    /\ err' = r.err

\* one iteration of parse_interactions' loop on the next line of the input
InteractionStep ==
    /\ pc = "loop"
    /\ parser = "parse_interactions"
    /\ lineno < MaxLines
    /\ \E ln \in InteractionLines :
         /\ line' = ln
         /\ Outcome(InteractionLine(G, keys, ln))
         /\ F' = IF F.pc = "loop" THEN InteractionLine(F.G, keys, ln) ELSE F
    /\ lineno' = lineno + 1
    /\ UNCHANGED <<parser, create_using, keys>>
    /\ UNCHANGED idVars
    /\ UNCHANGED writeVars

\* one iteration of parse_snapshots' loop on the next line of the input
SnapshotStep ==
    /\ pc = "loop"
    /\ parser = "parse_snapshots"
    /\ lineno < MaxLines
    /\ \E ln \in SnapshotLines :
         /\ line' = ln
         /\ Outcome(SnapshotLine(G, keys, ln))
         /\ F' = IF F.pc = "loop" THEN SnapshotLine(F.G, keys, ln) ELSE F
    /\ lineno' = lineno + 1
    /\ UNCHANGED <<parser, create_using, keys>>
    /\ UNCHANGED idVars
    /\ UNCHANGED writeVars

\* the input is exhausted: return G
Return ==
    /\ pc = "loop"
    /\ pc' = "done"
    /\ UNCHANGED <<parser, create_using, keys, G, line, lineno, err, F>>
    /\ UNCHANGED idVars
    /\ UNCHANGED writeVars

Next ==
    \/ NewGraph
    \/ ReuseGraph
    \/ RejectGraph
    \/ InteractionStep
    \/ SnapshotStep
    \/ Return

Spec == Init /\ [][Next]_vars

-----------------------------------------------------------------------------
(* read_ids *)

\* the lines of the files read_ids is run on
IdLines ==
    { TextLine(<<Tok(1), Tok(2), <<"+">>, Tok(5)>>),
      TextLine(<<Tok(1), Tok(2), <<"+">>, Tok(1)>>),
      TextLine(<<Tok(1), Tok(2), <<"-">>, Tok(3)>>),
      TextLine(<<Tok(1), Tok(2), Tok(3)>>),
      TextLine(<<Tok(1), Tok(2), Tok(0), Tok(5)>>),
      TextLine(<<Tok(7), Tok(2)>>),
      TextLine(<<<<"+">>, Tok(1)>>),
      TextLine(<<<<"1", "2", "3">>>>),
      <<"\n">>,
      <<"#", "c", "\n">> }

Files == UNION { [1..n -> IdLines] : n \in 0..MaxFile }

\* the outcome of one pass of read_ids' loop body: the keys set in ids, and
\* the exception that ends the pass, if any
Collected(S) == [ids |-> S, exc |-> ""]
Failed(S, exc) == [ids |-> S, exc |-> exc]

\* read_ids: the body of `for line in f`
ReadIdsLine(ln) ==
    LET s == Split(RStrip(ln))
        n == Len(s)
    IN  IF n = 0 THEN Failed({}, "IndexError")
        ELSE IF ~IntOK(s[n]) THEN Failed({}, "ValueError")
        ELSE IF Len(ln) = 4
             THEN IF n < 2 THEN Failed({timestamptype(s[n])}, "IndexError")
                  ELSE IF s[n - 1] \notin {<<"+">>, <<"-">>}
                       THEN IF ~IntOK(s[n - 1])
                            THEN Failed({timestamptype(s[n])}, "ValueError")
                            ELSE Collected({timestamptype(s[n]), timestamptype(s[n - 1])})
                       ELSE Collected({timestamptype(s[n])})
             ELSE Collected({timestamptype(s[n])})

ParseIdle ==
    /\ parser = "read_ids"
    /\ create_using = [kind |-> "None", graph |-> EmptyGraph]
    /\ keys = None
    /\ pc = "idle"
    /\ G = EmptyGraph
    /\ lineno = 0
    /\ F = Continue(EmptyGraph)

InitIds ==
    /\ ParseIdle
    /\ line = <<>>
    /\ err = NoErr
    /\ path \in Files
    /\ ids = {}
    /\ idpc = "scan"
    /\ idpos = 0
    /\ index = <<>>
    /\ W = <<>>
    /\ wpos = 0

\* one iteration of read_ids' loop
ReadIdsStep ==
    /\ idpc = "scan"
    /\ idpos < Len(path)
    /\ line' = path[idpos + 1]
    /\ idpos' = idpos + 1
    /\ LET r == ReadIdsLine(path[idpos + 1])
       IN  /\ ids' = ids \cup r.ids
           /\ idpc' = IF r.exc = "" THEN "scan" ELSE "error"
           /\ err' = IF r.exc = "" THEN NoErr
                     ELSE [exc |-> r.exc, what |-> "read_ids", tok |-> <<>>, type |-> ""]
    /\ UNCHANGED <<parser, create_using, keys, pc, G, lineno, F, path, index, W, wpos>>

\* ids = clean_timeslot(ids.keys()), with the ranks counted from the largest
ReadIdsReturnDescending ==
    /\ idpc = "scan"
    /\ idpos = Len(path)
    /\ index' = <<[x \in ids |-> Cardinality({y \in ids : y > x})]>>
    /\ idpc' = "done"
    /\ UNCHANGED <<parser, create_using, keys, pc, G, line, lineno, err, F,
                   path, ids, idpos, W, wpos>>

\* the file is read: ids = clean_timeslot(ids.keys()); return ids
ReadIdsReturn ==
    /\ idpc = "scan"
    /\ idpos = Len(path)
    /\ index' = <<clean_timeslot(ids)>>
    /\ idpc' = "done"
    /\ UNCHANGED <<parser, create_using, keys, pc, G, line, lineno, err, F,
                   path, ids, idpos, W, wpos>>

NextIds ==
    \/ ReadIdsStep
    \/ ReadIdsReturn

SpecIds == InitIds /\ [][NextIds]_vars

-----------------------------------------------------------------------------
(* read_interactions and read_snapshots on a file; write_interactions *)

\* the parser is called without waiting for read_ids to return
CallParserEarly ==
    /\ pc = "read"
    /\ idpc \in {"idle", "scan", "done"}
    /\ keys' = IF idpc = "done" THEN index ELSE None
    /\ pc' = "start"
    /\ UNCHANGED <<parser, create_using, G, line, lineno, err, F>>
    /\ UNCHANGED idVars
    /\ UNCHANGED writeVars

\* read_interactions / read_snapshots: the index is built when keys is set
\* (read_ids has returned), then the parser is called on the lines
CallParser ==
    /\ pc = "read"
    /\ idpc \in {"idle", "done"}
    /\ keys' = IF idpc = "done" THEN index ELSE None
    /\ pc' = "start"
    /\ UNCHANGED <<parser, create_using, G, line, lineno, err, F>>
    /\ UNCHANGED idVars
    /\ UNCHANGED writeVars

\* one iteration of parse_interactions' loop on the next line of the file
FileInteractionStep ==
    /\ pc = "loop"
    /\ parser = "parse_interactions"
    /\ lineno < Len(path)
    /\ line' = path[lineno + 1]
    /\ Outcome(InteractionLine(G, keys, path[lineno + 1]))
    /\ F' = IF F.pc = "loop" THEN InteractionLine(F.G, keys, path[lineno + 1]) ELSE F
    /\ lineno' = lineno + 1
    /\ UNCHANGED <<parser, create_using, keys>>
    /\ UNCHANGED idVars
    /\ UNCHANGED writeVars

\* one iteration of parse_snapshots' loop on the next line of the file
FileSnapshotStep ==
    /\ pc = "loop"
    /\ parser = "parse_snapshots"
    /\ lineno < Len(path)
    /\ line' = path[lineno + 1]
    /\ Outcome(SnapshotLine(G, keys, path[lineno + 1]))
    /\ F' = IF F.pc = "loop" THEN SnapshotLine(F.G, keys, path[lineno + 1]) ELSE F
    /\ lineno' = lineno + 1
    /\ UNCHANGED <<parser, create_using, keys>>
    /\ UNCHANGED idVars
    /\ UNCHANGED writeVars

\* the file is exhausted: return G
FileReturn ==
    /\ pc = "loop"
    /\ lineno = Len(path)
    /\ pc' = "done"
    /\ UNCHANGED <<parser, create_using, keys, G, line, lineno, err, F>>
    /\ UNCHANGED idVars
    /\ UNCHANGED writeVars

\* dynetx.utils.make_str of a number: its decimal digits
RECURSIVE make_str(_)
make_str(n) ==
    IF n < 10 THEN <<DigitChars[n + 1]>>
    ELSE make_str(n \div 10) \o <<DigitChars[(n % 10) + 1]>>

\* the timestamps at which a pair of g is active
ActiveSteps(g, p) == { g[p][i].t : i \in 1..Len(g[p]) }

\* the activity intervals of a set of timestamps: its maximal runs <<a, b>>
Runs(S) ==
    { r \in S \X S : /\ r[1] <= r[2]
                     /\ \A t \in r[1]..r[2] : t \in S
                     /\ (r[1] - 1) \notin S
                     /\ (r[2] + 1) \notin S }

\* the events of g: a `+` where an interval starts, a `-` where it has ended
Events(g) ==
    UNION { UNION { { [u |-> Min(p), v |-> Max(p), op |-> "+", t |-> r[1]],
                      [u |-> Min(p), v |-> Max(p), op |-> "-", t |-> r[2] + 1] }
                    : r \in Runs(ActiveSteps(g, p)) }
            : p \in DOMAIN g }

\* the place of an event in the stream: by time, then by pair
EventKey(e) == e.t * 1000 + e.u * 100 + e.v * 10 + (IF e.op = "+" THEN 1 ELSE 0)

RECURSIVE Sorted(_)
Sorted(E) ==
    IF E = {} THEN <<>>
    ELSE LET first == CHOOSE e \in E : \A x \in E : EventKey(e) <= EventKey(x)
         IN  <<first>> \o Sorted(E \ {first})

\* G.stream_interactions(): the events (u, v, op, t) in the order of time
stream_interactions(g) == Sorted(Events(g))

\* generate_interactions: delimiter.join(map(make_str, e)) for every event
generate_interactions(g) ==
    [i \in 1..Len(stream_interactions(g)) |->
        LET e == stream_interactions(g)[i]
        IN  Join(<<make_str(e.u), make_str(e.v), <<e.op>>, make_str(e.t)>>)]

\* the graphs parse_interactions builds from n records at most
RECURSIVE Built(_)
Built(n) ==
    IF n = 0 THEN {EmptyGraph}
    ELSE Built(n - 1) \cup
         { InteractionLine(b[1], None, b[2]).G :
             b \in { c \in Built(n - 1) \X InteractionRecords :
                       InteractionLine(c[1], None, c[2]).pc = "loop" } }

WrittenGraphs == Built(MaxLines)

InitRound ==
    /\ parser = "parse_interactions"
    /\ create_using = [kind |-> "None", graph |-> EmptyGraph]
    /\ keys = None
    /\ pc = "write"
    /\ G = EmptyGraph
    /\ line = <<>>
    /\ lineno = 0
    /\ err = NoErr
    /\ F = Continue(EmptyGraph)
    /\ IdsIdle
    /\ W \in WrittenGraphs
    /\ wpos = 0

\* write_interactions: every line of generate_interactions, a newline added
WriteInteractions ==
    /\ pc = "write"
    /\ path' = [i \in 1..Len(generate_interactions(W)) |->
                  generate_interactions(W)[i] \o <<"\n">>]
    /\ pc' = "read"
    /\ UNCHANGED <<parser, create_using, keys, G, line, lineno, err, F>>
    /\ UNCHANGED <<ids, idpc, idpos, index, W, wpos>>

NextRound ==
    \/ WriteInteractions
    \/ CallParser
    \/ NewGraph
    \/ FileInteractionStep
    \/ FileReturn

SpecRound == InitRound /\ [][NextRound]_vars

-----------------------------------------------------------------------------
(* read_interactions and read_snapshots, both passes on one file *)

ReadLines ==
    { TextLine(<<Tok(1), Tok(2), <<"+">>, Tok(0)>>),
      TextLine(<<Tok(1), Tok(2), <<"+">>, Tok(1)>>),
      TextLine(<<Tok(1), Tok(2), <<"-">>, Tok(2)>>),
      TextLine(<<Tok(1), Tok(2), Tok(1)>>),
      TextLine(<<Tok(1), Tok(3), Tok(2)>>),
      TextLine(<<Tok(1), Tok(2), Tok(0), Tok(2)>>),
      TextLine(<<Tok(1), Tok(2)>>),
      <<"\n">> }

ReadFiles == UNION { [1..n -> ReadLines] : n \in 0..MaxFile }

\* read_interactions / read_snapshots are entered: idpc is "scan" when keys
\* is set (read_ids is called first), "idle" when it is not
InitRead ==
    /\ parser \in {"parse_interactions", "parse_snapshots"}
    /\ create_using = [kind |-> "None", graph |-> EmptyGraph]
    /\ keys = None
    /\ pc = "read"
    /\ G = EmptyGraph
    /\ line = <<>>
    /\ lineno = 0
    /\ err = NoErr
    /\ F = Continue(EmptyGraph)
    /\ path \in ReadFiles
    /\ ids = {}
    /\ idpc \in {"idle", "scan"}
    /\ idpos = 0
    /\ index = <<>>
    /\ W = <<>>
    /\ wpos = 0

NextRead ==
    \/ ReadIdsStep
    \/ ReadIdsReturn
    \/ CallParser
    \/ NewGraph
    \/ FileInteractionStep
    \/ FileSnapshotStep
    \/ FileReturn

SpecRead == InitRead /\ [][NextRead]_vars

-----------------------------------------------------------------------------
(* generate_snapshots and write_snapshots *)

\* what G.interactions() gives generate_snapshots: a sequence of
\* [u, v, t], t = d['t'] a sequence of ranges [start, stop]; stop is <<b>>, or
\* <<>> for None

\* make_str of the list [a, b]
make_str_range(a, b) ==
    <<"[">> \o make_str(a) \o <<",", " ">> \o make_str(b) \o <<"]">>

StoredRanges ==
    { [start |-> a, stop |-> <<b>>] : a \in 0..MaxT, b \in 0..MaxT }
    \cup { [start |-> 0, stop |-> None] }

\* the timelines d['t']: one or two ranges
StoredTimelines ==
    { <<r>> : r \in StoredRanges }
    \cup { <<r[1], r[2]>> : r \in { q \in StoredRanges \X StoredRanges :
                                      /\ q[1].stop # None /\ q[2].stop # None
                                      /\ q[1].start <= q[1].stop[1]
                                      /\ q[1].stop[1] < q[2].start
                                      /\ q[2].start <= q[2].stop[1] } }

SnapshotGraphs ==
    { <<>> }
    \cup { <<[u |-> 1, v |-> 2, t |-> tl]>> : tl \in StoredTimelines }
    \cup { <<[u |-> 1, v |-> 2, t |-> tl[1]], [u |-> 1, v |-> 3, t |-> tl[2]]>> :
             tl \in StoredTimelines \X { <<r>> : r \in StoredRanges } }

\* the stored ranges in the order the two loops of generate_snapshots meet them
RECURSIVE FlatRanges(_)
FlatRanges(g) ==
    IF g = <<>> THEN <<>>
    ELSE [i \in 1..Len(g[1].t) |-> [u |-> g[1].u, v |-> g[1].v, t |-> g[1].t[i]]]
         \o FlatRanges(Tail(g))

\* generate_snapshots, the body of `for t in d['t']`: the line yielded for
\* one range, <<line>>, or <<>> when xrange(t[0], None) raises TypeError
SnapshotOfRange(x) ==
    IF x.t.stop = None THEN <<>>
    ELSE IF x.t.start < x.t.stop[1]
         THEN << Join(<<make_str(x.u), make_str(x.v),
                        make_str_range(x.t.start, x.t.stop[1])>>) >>
         ELSE << Join(<<make_str(x.u), make_str(x.v), make_str(x.t.start)>>) >>

InitSnap ==
    /\ parser = "generate_snapshots"
    /\ create_using = [kind |-> "None", graph |-> EmptyGraph]
    /\ keys = None
    /\ pc = "write"
    /\ G = EmptyGraph
    /\ line = <<>>
    /\ lineno = 0
    /\ err = NoErr
    /\ F = Continue(EmptyGraph)
    /\ IdsIdle
    /\ W \in SnapshotGraphs
    /\ wpos = 0

\* write_snapshots: the next line of generate_snapshots, a newline added
WriteSnapshot ==
    /\ pc = "write"
    /\ parser = "generate_snapshots"
    /\ wpos < Len(FlatRanges(W))
    /\ LET y == SnapshotOfRange(FlatRanges(W)[wpos + 1])
       IN  IF y = <<>>
           THEN /\ pc' = "error"
                /\ err' = [exc |-> "TypeError", what |-> "xrange", tok |-> <<>>, type |-> ""]
                /\ UNCHANGED path
           ELSE /\ path' = Append(path, y[1] \o <<"\n">>)
                /\ UNCHANGED <<pc, err>>
    /\ wpos' = wpos + 1
    /\ UNCHANGED <<parser, create_using, keys, G, line, lineno, F>>
    /\ UNCHANGED <<ids, idpc, idpos, index, W>>

\* generate_snapshots is exhausted
SnapshotsWritten ==
    /\ pc = "write"
    /\ parser = "generate_snapshots"
    /\ wpos = Len(FlatRanges(W))
    /\ pc' = "written"
    /\ UNCHANGED <<parser, create_using, keys, G, line, lineno, err, F>>
    /\ UNCHANGED idVars
    /\ UNCHANGED writeVars

NextSnap ==
    \/ WriteSnapshot
    \/ SnapshotsWritten

SpecSnap == InitSnap /\ [][NextSnap]_vars

-----------------------------------------------------------------------------
(* Reading the record of a line, for the properties *)

\* the fields the parsers see in a line
Rec(ln) == Fields(StripComment(ln))

\* a loop body has just run on line'
Stepped == pc = "loop" /\ lineno' = lineno + 1

\* the first, second and n-th field of a line convert
Converts(ln, n) == IntOK(Rec(ln)[1]) /\ IntOK(Rec(ln)[2]) /\ IntOK(Rec(ln)[n])

\* an interaction record `u v op t` whose fields convert
IsInteraction(ln, op) ==
    Len(Rec(ln)) = 4 /\ Rec(ln)[3] = <<op>> /\ Converts(ln, 4)

RecU(ln) == ToInt(Rec(ln)[1])
RecV(ln) == ToInt(Rec(ln)[2])

\* the timestamps t0, t0 + 1, ..., t1 - 1
Steps(t0, t1) == [i \in 1..(t1 - t0) |-> t0 + i - 1]

LastT(g, u, v) == Timestamps(g, u, v)[Len(g[Pair(u, v)])]

\* C1: in parse_interactions without keys, `u v + t0` followed by `u v - t1`
\* with t0 < t1 leaves the pair's timeline with exactly the t1 - t0 entries
\* t0, ..., t1 - 1.  (The pair's timeline holds the single entry t0 exactly
\* when one `+ t0` is all the input had for the pair.)
C1_OneEntryPerStep ==
    [][ ( /\ parser = "parse_interactions" /\ keys = None /\ Stepped
          /\ IsInteraction(line', "-")
          /\ HasEdge(G, RecU(line'), RecV(line'))
          /\ Len(G[Pair(RecU(line'), RecV(line'))]) = 1
          /\ LastT(G, RecU(line'), RecV(line')) < ToInt(Rec(line')[4]) )
        => Timestamps(G', RecU(line'), RecV(line'))
             = Steps(LastT(G, RecU(line'), RecV(line')), ToInt(Rec(line')[4])) ]_vars

\* C2: in parse_interactions a `-` record for a pair without an earlier `+`
\* is a silent no-op: nothing is raised, nothing registered, the loop goes on.
C2_CloseUnknownIsNoOp ==
    [][ ( /\ parser = "parse_interactions" /\ Stepped
          /\ IsInteraction(line', "-")
          /\ ~HasEdge(G, RecU(line'), RecV(line')) )
        => (pc' = "loop" /\ err' = NoErr /\ G' = G) ]_vars

\* C3: in parse_interactions a `-` record at t1 <= the pair's most recent
\* recorded start registers nothing, and the same record run again on the
\* result registers nothing again.
C3_CloseNotAfterStartIsNoOp ==
    [][ ( /\ parser = "parse_interactions" /\ Stepped
          /\ IsInteraction(line', "-")
          /\ HasEdge(G, RecU(line'), RecV(line'))
          /\ ToInt(Rec(line')[4]) <= LastT(G, RecU(line'), RecV(line')) )
        => ( /\ G' = G /\ pc' = "loop" /\ err' = NoErr
             /\ InteractionLine(G', keys, line') = Continue(G') ) ]_vars

\* a `-` record not after the last start has run, on a pair with two starts
C3_Witness ==
    /\ parser = "parse_interactions" /\ pc = "loop"
    /\ IsInteraction(line, "-")
    /\ HasEdge(G, RecU(line), RecV(line))
    /\ Len(G[Pair(RecU(line), RecV(line))]) >= 2
    /\ ToInt(Rec(line)[4]) <= LastT(G, RecU(line), RecV(line))
    /\ ToInt(Rec(line)[4]) > Timestamps(G, RecU(line), RecV(line))[1]

\* C4: in parse_interactions a line whose field count, after the comment is
\* cut and the line split, is not 4 changes nothing in the graph and raises
\* nothing; the loop goes on to the next line.
C4_WrongCountSkipped ==
    [][ ( /\ parser = "parse_interactions" /\ Stepped
          /\ Len(Rec(line')) # 4 )
        => (G' = G /\ pc' = "loop" /\ err' = NoErr) ]_vars

\* a line of more than 4 fields was passed over after a line that registered
C4_Witness ==
    /\ parser = "parse_interactions" /\ pc = "loop"
    /\ lineno >= 2 /\ Len(Rec(line)) > 4
    /\ G # EmptyGraph

\* C5: in parse_snapshots a line whose field count is not 3 or 4 never
\* changes the graph.
C5_SnapshotWrongCountSkipped ==
    [][ ( /\ parser = "parse_snapshots" /\ Stepped
          /\ Len(Rec(line')) \notin {3, 4} )
        => G' = G ]_vars

\* a converter is called on line ln and fails
ConverterFails(ln) ==
    /\ IF parser = "parse_interactions" THEN ~InteractionSkip(Rec(ln))
                                        ELSE ~SnapshotSkip(Rec(ln))
    /\ Len(StripComment(ln)) # 0
    /\ ~Converts(ln, IF parser = "parse_interactions" THEN 4 ELSE 3)

\* C6: when a node or timestamp converter fails on a line, the parse raises
\* TypeError there; the graph keeps what the lines before registered, and
\* nothing is registered by that line or after it.
C6_ConversionAborts ==
    [][ /\ (Stepped /\ ConverterFails(line'))
            => (pc' = "error" /\ err'.exc = "TypeError" /\ G' = G)
        /\ pc = "error" => (G' = G /\ pc' = "error" /\ lineno' = lineno) ]_vars

\* a conversion failed after earlier lines had registered entries
C6_Witness ==
    /\ pc = "error" /\ err.exc = "TypeError" /\ err.what \in {"nodes", "timestamp"}
    /\ lineno >= 2 /\ G # EmptyGraph
    /\ ConverterFails(line)

\* C7: when create_using cannot be cleared the parse raises TypeError before
\* any line is read, and no graph receives a registration.
C7_BadCreateUsing ==
    (create_using.kind = "NotGraph" /\ pc # "start")
        => ( /\ pc = "error" /\ err = CreateUsingError
             /\ lineno = 0 /\ line = <<>>
             /\ G = EmptyGraph )

\* the parse was refused
C7_Witness ==
    create_using.kind = "NotGraph" /\ pc = "error" /\ err.what = "create_using"

\* C8: a parse into a supplied graph, whatever it held, is at every line where
\* the parse into a new graph is: same timelines, same exception if any.
C8_ReuseEqualsFresh ==
    (create_using.kind = "DynGraph" /\ pc # "start")
        => ( /\ G = F.G /\ err = F.err
             /\ (pc = "error") = (F.pc = "error") )

\* a graph that held a start for a pair was reused, and the pair registered anew
C8_Witness ==
    /\ create_using.kind = "DynGraph" /\ pc = "done"
    /\ \E p \in DOMAIN create_using.graph : p \in DOMAIN G /\ G[p] # create_using.graph[p]
    /\ lineno >= 2

\* the record of a snapshot line that parse_snapshots accepts by the format
ValidSnapshot(ln) == Len(Rec(ln)) \in {3, 4} /\ Converts(ln, 3)

\* C9: in parse_snapshots without keys every line `u v t` registers exactly
\* the entry (t, no e) for the pair, every line `u v t e` exactly the entry
\* (t, e), and no other line registers anything, so that there are as many
\* registrations as valid lines.
C9_OneEntryPerValidLine ==
    [][ (parser = "parse_snapshots" /\ keys = None /\ Stepped)
        => IF ValidSnapshot(line')
           THEN G' = add_interaction(G, RecU(line'), RecV(line'), ToInt(Rec(line')[3]),
                                     IF Len(Rec(line')) = 3 THEN None
                                     ELSE <<Rec(line')[4]>>)
           ELSE G' = G ]_vars


\* C10: the index read_ids returns maps the distinct values collected from
\* the lines, in whatever order the lines came, each to its rank in ascending
\* order: the ranks are 0..n-1 for n values, and a < b gives index[a] < index[b].
C10_IndexIsRank ==
    idpc = "done"
        => ( /\ DOMAIN index[1] = ids
             /\ ids = UNION { ReadIdsLine(path[i]).ids : i \in 1..Len(path) }
             /\ { index[1][x] : x \in ids } = 0..(Cardinality(ids) - 1)
             /\ \A a, b \in ids : a < b => index[1][a] < index[1][b] )

\* the timestamps 5, 1, 3, read in this order, are indexed 1:0, 3:1, 5:2
C10_Witness ==
    /\ idpc = "done"
    /\ Len(path) = 3
    /\ ReadIdsLine(path[1]).ids = {5}
    /\ ReadIdsLine(path[2]).ids = {1}
    /\ ReadIdsLine(path[3]).ids = {3}
    /\ index[1][1] = 0 /\ index[1][3] = 1 /\ index[1][5] = 2


\* the pairs of g and h have the same activity intervals
SameIntervals(g, h) ==
    /\ DOMAIN g = DOMAIN h
    /\ \A p \in DOMAIN g : Runs(ActiveSteps(g, p)) = Runs(ActiveSteps(h, p))

ParseLine(g, k, ln) ==
    IF parser = "parse_interactions" THEN InteractionLine(g, k, ln)
    ELSE SnapshotLine(g, k, ln)

InputLines ==
    IF parser = "parse_interactions" THEN InteractionLines ELSE SnapshotLines

HasMarker(ln) == \E i \in 1..Len(ln) : ln[i] = "#"

\* the text of a line before its first marker: its longest marker-free prefix
BeforeMarker(ln) ==
    SubSeq(ln, 1, Cardinality({i \in 1..Len(ln) : \A j \in 1..i : ln[j] # "#"}))

Blank(str) == \A i \in 1..Len(str) : IsSpace(str[i])

\* C12: in both parsers a line acts as any other line with the same text
\* before the first marker does, and a line with nothing but blanks before
\* its first marker (or with nothing but blanks at all) is passed over: the
\* graph is unchanged, nothing is raised.
C12_CommentStripping ==
    [][ Stepped =>
          /\ \A other \in InputLines :
               ( /\ HasMarker(other) /\ HasMarker(line')
                 /\ BeforeMarker(other) = BeforeMarker(line') )
               => ParseLine(G, keys, other) = [G |-> G', pc |-> pc', err |-> err']
          /\ Blank(BeforeMarker(line'))
               => (G' = G /\ pc' = "loop" /\ err' = NoErr) ]_vars

\* a record followed by two markers has acted as the record alone
C12_Witness ==
    /\ pc = "loop" /\ lineno >= 2
    /\ Cardinality({i \in 1..Len(line) : line[i] = "#"}) = 2
    /\ Len(Rec(line)) >= 3
    /\ G # EmptyGraph
    /\ \E other \in InputLines :
         other # line /\ HasMarker(other) /\ BeforeMarker(other) = BeforeMarker(line)


\* the values the collection rule names for a line: the last token, and the
\* second-to-last token of a line of exactly 4 tokens when it is no operator
RuleCandidates(ln) ==
    LET s == Split(RStrip(ln))
    IN  { ToInt(s[i]) : i \in { j \in 1..Len(s) :
                                  \/ j = Len(s)
                                  \/ /\ j = Len(s) - 1
                                     /\ Len(s) = 4
                                     /\ s[j] \notin {<<"+">>, <<"-">>} } }

\* C13: as long as read_ids has not raised, what it has collected is what the
\* rule names for the lines read so far, and nothing else.
C13_CollectionRule ==
    idpc \in {"scan", "done"}
        => ids = UNION { RuleCandidates(path[i]) : i \in 1..idpos }


\* the lines C14 names for one stored range: one per step of [start, stop),
\* and the one line of the start for a range of a single point (start = stop)
RECURSIVE StepLines(_, _, _, _)
StepLines(u, v, a, b) ==
    IF a >= b THEN <<>>
    ELSE <<TextLine(<<make_str(u), make_str(v), make_str(a)>>)>>
         \o StepLines(u, v, a + 1, b)

RangeLines(x) ==
    IF x.t.start = x.t.stop[1]
    THEN <<TextLine(<<make_str(x.u), make_str(x.v), make_str(x.t.start)>>)>>
    ELSE StepLines(x.u, x.v, x.t.start, x.t.stop[1])

RECURSIVE LinesUpTo(_, _)
LinesUpTo(rs, n) == IF n = 0 THEN <<>> ELSE LinesUpTo(rs, n - 1) \o RangeLines(rs[n])

\* C14: the lines generate_snapshots has produced for the stored ranges it
\* has gone through are, range after range, one line `u v s` per timestep s
\* of [start, stop), and one line `u v start` for a range of a single point.
C14_OneLinePerTimestep ==
    ( /\ parser = "generate_snapshots" /\ pc # "error"
      /\ \A i \in 1..wpos : FlatRanges(W)[i].t.stop # None
      /\ \A i \in 1..wpos : FlatRanges(W)[i].t.start <= FlatRanges(W)[i].t.stop[1] )
        => path = LinesUpTo(FlatRanges(W), wpos)


RecT(ln) == ToInt(Rec(ln)[4])

\* the timestamps of the pair's entries from the n-th on
EntriesFrom(g, u, v, n) ==
    { Timestamps(g, u, v)[i] : i \in n..Len(g[Pair(u, v)]) }

\* C15: in parse_interactions with keys, `u v + t0` followed by `u v - t1`
\* with keys[t0] < keys[t1] goes on without an error, and the entries of the
\* pair from the one of the `+` on are the ordinals keys[t0], ...,
\* keys[t1] - 1 and nothing else.
C15_ReindexedClose ==
    [][ ( /\ parser = "parse_interactions" /\ keys # None /\ Stepped
          /\ lineno >= 1
          /\ IsInteraction(line, "+") /\ IsInteraction(line', "-")
          /\ RecU(line) = RecU(line') /\ RecV(line) = RecV(line')
          /\ HasKey(keys, RecT(line)) /\ HasKey(keys, RecT(line'))
          /\ Key(keys, RecT(line)) < Key(keys, RecT(line')) )
        => ( /\ pc' = "loop" /\ err' = NoErr
             /\ EntriesFrom(G', RecU(line), RecV(line), Len(G[Pair(RecU(line), RecV(line))]))
                  = Key(keys, RecT(line)) .. (Key(keys, RecT(line')) - 1) ) ]_vars


\* C16: in parse_interactions without keys, once `u v - t1` has closed the
\* pair, a further `u v - t2` with t2 > t1 right after it, no `+` between
\* them, registers nothing.
C16_ClosedStaysClosed ==
    [][ ( /\ parser = "parse_interactions" /\ keys = None /\ Stepped
          /\ lineno >= 2
          /\ IsInteraction(line, "-") /\ IsInteraction(line', "-")
          /\ RecU(line) = RecU(line') /\ RecV(line) = RecV(line')
          /\ HasEdge(G, RecU(line), RecV(line))
          /\ LastT(G, RecU(line), RecV(line)) = RecT(line) - 1
          /\ RecT(line') > RecT(line) )
        => G' = G ]_vars


\* C17: when the timestamp of a line fails to convert, the error raised by
\* either parser is a TypeError that carries the timestamp token of the line
\* and names the type asked for timestamps, timestamptype.
C17_TimestampErrorNamesType ==
    (pc = "error" /\ err.what = "timestamp")
        => ( /\ err.exc = "TypeError"
             /\ err.tok = <<Rec(line)[IF parser = "parse_interactions" THEN 4 ELSE 3]>>
             /\ err.type = "timestamptype" )


\* the parser has been called
InMainPass == pc \in {"start", "loop", "done", "error"}

\* C18: in read_interactions and read_snapshots with keys set, the parser
\* is called only when read_ids has read the whole file and returned the
\* index, nothing is registered before that, and no step of the parser
\* changes the index; with keys not set read_ids never runs, the parser
\* gets no index and makes no lookup.
C18_TwoPassOrder ==
    /\ [](InMainPass =>
            IF idpc = "idle"
            THEN keys = None /\ index = <<>> /\ ids = {} /\ idpos = 0
                 /\ ~(err.exc = "KeyError" /\ err.what = "keys")
            ELSE /\ idpc = "done" /\ idpos = Len(path)
                 /\ index = <<clean_timeslot(ids)>>
                 /\ (pc # "start" => keys = index))
    /\ [](~InMainPass => (G = EmptyGraph /\ lineno = 0))
    /\ [][InMainPass => UNCHANGED <<index, ids, idpos, idpc>>]_vars
    /\ [][(pc \in {"loop", "done", "error"}) => keys' = keys]_vars

\* a read with keys set has gone through both passes and registered entries
C18_Witness ==
    /\ pc = "done" /\ idpc = "done" /\ keys # None
    /\ Len(path) >= 2 /\ G # EmptyGraph


\* C19: in a read with keys set, every lookup of the main pass in the index
\* finds its key: the parser never ends in a KeyError raised by keys[...].
C19_LookupsFindTheirKey ==
    (InMainPass /\ idpc = "done")
        => ~(pc = "error" /\ err.exc = "KeyError" /\ err.what = "keys")


\* the timeline of a pair, empty when the pair is not in the graph
Timeline(g, p) == IF p \in DOMAIN g THEN g[p] ELSE <<>>

\* the entries g2 has for the pair after those of g
Added(g, g2, p) == SubSeq(Timeline(g2, p), Len(Timeline(g, p)) + 1, Len(Timeline(g2, p)))

\* the pairs a record with the fields s is for: at most one
RecPairs(s) ==
    IF Len(s) >= 2 /\ IntOK(s[1]) /\ IntOK(s[2])
    THEN { Pair(ToInt(s[1]), ToInt(s[2])) } ELSE {}

\* the fields of a `-` record of parse_interactions, whatever its timestamp
IsClose(s) == parser = "parse_interactions" /\ Len(s) = 4 /\ s[3] # <<"+">>

\* a graph that has nothing in common with g but what a `-` record looks up,
\* the most recent start of the pair
OnlyLastStart(g, p) == [q \in (DOMAIN g) \cap {p} |-> <<g[q][Len(g[q])]>>]

\* C20: in both parsers, a pass of the loop on a record of the pair (u, v)
\* leaves the timeline of every other pair as it is and keeps the entries of
\* (u, v), adding at its end only; and the pass does not depend on the graph
\* (same outcome, same entries added) beyond, for a `-` record, the most
\* recent start of (u, v): any other record does on the empty graph what it
\* does on G, a `-` record does on the graph of that one start what it does
\* on G.
C20_AppendOnlyFrame ==
    [][ Stepped =>
          \A s \in {Rec(line')} : \A pairs \in {RecPairs(s)} :
              /\ \A p \in (DOMAIN G) \cup (DOMAIN G') :
                   /\ p \in DOMAIN G => p \in DOMAIN G'
                   /\ p \notin pairs => (p \in DOMAIN G /\ G'[p] = G[p])
                   /\ SubSeq(Timeline(G', p), 1, Len(Timeline(G, p))) = Timeline(G, p)
              /\ \A p \in pairs :
                   \A g2 \in {IF IsClose(s) THEN OnlyLastStart(G, p) ELSE EmptyGraph} :
                   \A r \in {ParseLine(g2, keys, line')} :
                       /\ r.pc = pc' /\ r.err = err'
                       /\ Added(g2, r.G, p) = Added(G, G', p) ]_vars

\* a `-` record has added entries to a pair that had some, in a graph with
\* another pair
C20_Witness ==
    /\ parser = "parse_interactions" /\ pc = "loop" /\ lineno = MaxLines
    /\ IsInteraction(line, "-")
    /\ Cardinality(DOMAIN G) >= 2
    /\ HasEdge(G, RecU(line), RecV(line))
    /\ Len(G[Pair(RecU(line), RecV(line))]) >= 3

====
